---- MODULE Spec2Model ----
(***************************************************************************)
(* Order-to-shipment synchronisation of the Shopify/Shipsy integration.    *)
(*                                                                         *)
(* Text (order notes, tag lists, consignment ids) is modelled as sequences *)
(* of one-character strings, so that String.includes, String.match,        *)
(* String.split and Array.join are computed character by character.        *)
(***************************************************************************)
EXTENDS Naturals, Sequences, FiniteSets, TLC

VARIABLES
  shop,     \* the order source: order id -> [note, tags, financial_status, fulfillment_status]
  carrier,  \* the consignments the carrier has created: a set of [order, id]
  syncLog,  \* the entries of the SyncLog file (logs/sync.log)
  task,     \* the running invocations: webhook handlers, manual syncs, batches
  env,      \* process.env.ENABLE_AUTO_SYNC: "undefined", "true" or "false"
  probe,    \* one evaluation of the note functions on a chosen input
  shipment, \* the carrier's current_status of each order's consignment
  clock,    \* new Date(), in days
  settings, \* settings.sync.enableAutoSync, read from process.env when loaded
  cron      \* the cron modules: syncCronJob, statusUpdateCronJob, live jobs

vars == <<shop, carrier, syncLog, task, env, probe, shipment, clock, settings, cron>>

\* let syncCronJob = null; let statusUpdateCronJob = null; nothing scheduled
NoJobs ==
  [syncCronJob |-> "null", statusUpdateCronJob |-> "null",
   syncJobs |-> 0, statusJobs |-> 0, last |-> "none", was |-> "null"]

----------------------------------------------------------------------------
(* Bounds of the model *)

\* how many fragments a probed note is concatenated from
MaxFrags == 3
\* how many fragments of unrelated text surround an embedded token
MaxPad == 1
\* the orders of the store are 1..NumOrders
NumOrders == 2
\* Date.now() takes the values 0..MaxClock (seconds digit of the timestamp)
MaxClock == 1

----------------------------------------------------------------------------
(* JavaScript values and strings *)

\* JavaScript null / undefined: a value no string equals
Null == << "null" >>

\* !x for a string-or-null x
Falsy(x) == x = Null \/ x = << >>

IsDigit(c) == c \in {"0", "1", "2", "3", "4", "5", "6", "7", "8", "9"}

\* the regular expression class \s, for the characters the model uses
IsSpace(c) == c \in {" ", "\n", "\t"}

DigitChar == << "0", "1", "2", "3", "4", "5", "6", "7", "8", "9" >>

\* whether p occurs in s at index i
StartsWithAt(s, p, i) ==
  /\ i >= 1
  /\ i + Len(p) - 1 <= Len(s)
  /\ \A k \in 1..Len(p) : s[i + k - 1] = p[k]

\* String.prototype.includes
includes(s, p) == \E i \in 1..(Len(s) + 1) : StartsWithAt(s, p, i)

\* String.prototype.indexOf, 1-based; 0 when p does not occur
indexOf(s, p) ==
  IF includes(s, p)
  THEN CHOOSE i \in 1..(Len(s) + 1) :
         /\ StartsWithAt(s, p, i)
         /\ \A j \in 1..(i - 1) : ~StartsWithAt(s, p, j)
  ELSE 0

\* String.prototype.split for a non-empty separator
RECURSIVE split(_, _)
split(s, sep) ==
  LET i == indexOf(s, sep)
  IN IF i = 0
     THEN << s >>
     ELSE << SubSeq(s, 1, i - 1) >> \o split(SubSeq(s, i + Len(sep), Len(s)), sep)

\* Array.prototype.join
RECURSIVE join(_, _)
join(a, sep) ==
  IF a = << >> THEN << >>
  ELSE IF Len(a) = 1 THEN a[1]
  ELSE a[1] \o sep \o join(Tail(a), sep)

\* Array.prototype.includes
arrayIncludes(a, x) == \E k \in 1..Len(a) : a[k] = x

\* the index of the first character at or after i that is not white space
RECURSIVE SkipSpaces(_, _)
SkipSpaces(s, i) ==
  IF i <= Len(s) /\ IsSpace(s[i]) THEN SkipSpaces(s, i + 1) ELSE i

\* the longest run of digits of s that starts at i
RECURSIVE DigitRun(_, _)
DigitRun(s, i) ==
  IF i <= Len(s) /\ IsDigit(s[i]) THEN << s[i] >> \o DigitRun(s, i + 1) ELSE << >>

\* the literal "SHIPSY_ID:"
TokenKey == << "S", "H", "I", "P", "S", "Y", "_", "I", "D", ":" >>

\* capture group 1 of /SHIPSY_ID:\s*(\d+)/ matched at index i, << >> when it
\* does not match there (\s* and \d+ are greedy and share no character)
MatchAt(s, i) ==
  IF StartsWithAt(s, TokenKey, i)
  THEN DigitRun(s, SkipSpaces(s, i + Len(TokenKey)))
  ELSE << >>

\* the single-digit capture that /SHIPSY_ID:\s*(\d)/ would make
ExtractOneDigit(note) ==
  IF Falsy(note) THEN Null
  ELSE IF \E i \in 1..Len(note) : MatchAt(note, i) # << >>
       THEN LET i == CHOOSE i \in 1..Len(note) :
                       /\ MatchAt(note, i) # << >>
                       /\ \A j \in 1..(i - 1) : MatchAt(note, j) = << >>
            IN << MatchAt(note, i)[1] >>
       ELSE Null

\* SyncService.extractConsignmentId: note.match(...) is the leftmost match
extractConsignmentId(note) ==
  IF Falsy(note) THEN Null
  ELSE IF \E i \in 1..Len(note) : MatchAt(note, i) # << >>
       THEN LET i == CHOOSE i \in 1..Len(note) :
                       /\ MatchAt(note, i) # << >>
                       /\ \A j \in 1..(i - 1) : MatchAt(note, j) = << >>
            IN MatchAt(note, i)
       ELSE Null

\* new Date().toISOString() at second t of the model's clock
toISOString(t) ==
  << "2", "0", "2", "6", "-", "1", "1", "-", "0", "1", "T",
     "1", "9", ":", "4", "9", ":", "0" >> \o << DigitChar[t + 1] >>
     \o << ".", "0", "0", "0", "Z" >>

\* the note text syncOrder writes: `SHIPSY_ID: ${id}\nCreated: ${iso}`
SyncNote(id, t) ==
  TokenKey \o << " " >> \o id
    \o << "\n", "C", "r", "e", "a", "t", "e", "d", ":", " " >> \o toISOString(t)

\* a guard that never finds the order synced
NeverSynced(note) == FALSE

\* a guard that asks extractConsignmentId
GuardByExtract(note) == extractConsignmentId(note) # Null

\* the guard of syncOrder: order.note && order.note.includes("SHIPSY_ID:")
AlreadySynced(note) == ~Falsy(note) /\ includes(note, TokenKey)

\* the test getSyncStats counts an order as synced by
StatsCountsSynced(note) == ~Falsy(note) /\ includes(note, TokenKey)

----------------------------------------------------------------------------
(* The inputs of the probe *)

Clock == 0..MaxClock

Fragments ==
  { TokenKey, << " " >>, << "\n" >>, << "7" >>, << "4", "2" >>, << "x" >>,
    << "S", "H", "I", "P" >> }

\* the concatenations of at most n fragments
RECURSIVE Texts(_)
Texts(n) ==
  IF n = 0 THEN { << >> }
  ELSE LET shorter == Texts(n - 1)
       IN shorter \cup { a \o f : a \in shorter, f \in Fragments }

\* consignment ids made only of digits
DigitIds == { << "7" >>, << "4", "2" >>, << "0", "0", "7" >> }

\* the white space between the key and the digits of an embedded token
Gaps == { << >>, << " " >>, << " ", "\n" >> }

ProbeOff == [mode |-> "off"]

ProbeInputs ==
  { [mode |-> "raw", pc |-> "noted", note |-> n] :
      n \in Texts(MaxFrags) \cup {Null} }
  \cup
  { [mode |-> "sync", pc |-> "input", id |-> i, t |-> t] :
      i \in DigitIds, t \in Clock }
  \cup
  { [mode |-> "embedded", pc |-> "input", pre |-> p, gap |-> g, id |-> i, post |-> q] :
      p \in { x \in Texts(MaxPad) : ~includes(x, TokenKey) },
      g \in Gaps,
      i \in DigitIds,
      q \in { x \in Texts(MaxPad) : x = << >> \/ ~IsDigit(x[1]) } }

\* the note is produced: by syncOrder's encoding, or by text around a token
ProbeEncode ==
  /\ probe.mode \in {"sync", "embedded"}
  /\ probe.pc = "input"
  /\ probe' = [probe EXCEPT !.pc = "noted"] @@
              [note |-> IF probe.mode = "sync"
                        THEN SyncNote(probe.id, probe.t)
                        ELSE probe.pre \o TokenKey \o probe.gap \o probe.id \o probe.post]
  /\ UNCHANGED <<shop, carrier, syncLog, task, env, shipment, clock, settings, cron>>

\* extractConsignmentId is applied to the note
ProbeExtract ==
  /\ probe.mode # "off"
  /\ probe.pc = "noted"
  /\ probe' = [probe EXCEPT !.pc = "extracted"] @@
              [out |-> extractConsignmentId(probe.note)]
  /\ UNCHANGED <<shop, carrier, syncLog, task, env, shipment, clock, settings, cron>>

\* the other places that ask "is this order synced" classify the note
ProbeClassify ==
  /\ probe.mode # "off"
  /\ probe.pc = "extracted"
  /\ probe' = [probe EXCEPT !.pc = "classified"] @@
              [guard |-> AlreadySynced(probe.note),
               stats |-> StatsCountsSynced(probe.note)]
  /\ UNCHANGED <<shop, carrier, syncLog, task, env, shipment, clock, settings, cron>>

----------------------------------------------------------------------------
(* The order source, the carrier and the invocations *)

Orders == 1..NumOrders

\* the invocations that can be in progress at once
Tasks == {1, 2}

\* the identifiers the carrier issues, in the order it issues them: any truthy
\* consignment_id is accepted, made of digits or not
CarrierIdPool == << << "7" >>, << "C", "N", "9" >> >>

\* new Date() while an invocation runs
MachineClock == {0}

ShipsySyncedTag == << "s", "h", "i", "p", "s", "y", "-", "s", "y", "n", "c", "e", "d" >>

TagSeparator == << ",", " " >>

CallFirst == << "C", "a", "l", "l", " ", "f", "i", "r", "s", "t" >>

VipGift == << "v", "i", "p", ",", " ", "g", "i", "f", "t" >>

\* the fields of shipping_address that Order.validate asks for, as the set
\* of those that are non-empty; line_items is the number of line items
CompleteAddress == {"first_name", "last_name", "address1", "city", "zip", "phone"}

\* Order.validate: the errors it collects, and isValid
validate(order) ==
  LET a == order.shipping_address
      errors ==
        (IF "first_name" \notin a \/ "last_name" \notin a THEN << "name" >> ELSE << >>)
        \o (IF "address1" \notin a THEN << "address1" >> ELSE << >>)
        \o (IF "city" \notin a THEN << "city" >> ELSE << >>)
        \o (IF "zip" \notin a THEN << "zip" >> ELSE << >>)
        \o (IF "phone" \notin a THEN << "phone" >> ELSE << >>)
        \o (IF order.line_items = 0 THEN << "items" >> ELSE << >>)
  IN [isValid |-> errors = << >>, errors |-> errors]

\* the orders a store can hold before any sync
InitOrders ==
  { [note |-> Null, tags |-> << >>,
     financial_status |-> "paid", fulfillment_status |-> "null",
     shipping_address |-> CompleteAddress, line_items |-> 1],
    [note |-> CallFirst, tags |-> VipGift,
     financial_status |-> "paid", fulfillment_status |-> "null",
     shipping_address |-> CompleteAddress, line_items |-> 1],
    [note |-> Null, tags |-> << >>,
     financial_status |-> "refunded", fulfillment_status |-> "null",
     shipping_address |-> CompleteAddress, line_items |-> 1],
    [note |-> CallFirst, tags |-> << >>,
     financial_status |-> "pending", fulfillment_status |-> "cancelled",
     shipping_address |-> CompleteAddress, line_items |-> 1] }

IdleTask == [kind |-> "idle", pc |-> "idle"]

\* an order as a webhook payload, getOrder or getAllOrders delivers it
Snapshot(o) == [id |-> o] @@ shop[o]

\* the carrier can still issue an id
CanIssue == Cardinality(carrier) < Len(CarrierIdPool)

\* the id the carrier issues next
NextId == CarrierIdPool[Cardinality(carrier) + 1]

ConsignmentsOf(o) == { c \in carrier : c.order = o }

\* the order a task's syncOrder call is working on
Current(t) == task[t].page[task[t].i]

AlreadySyncedResult == [success |-> FALSE, reason |-> "already_synced", threw |-> FALSE]

Thrown(msg) == [success |-> FALSE, reason |-> msg, threw |-> TRUE]

\* syncOrder resolving with no value: the code path after a false
\* `if (consignment.success)`
UndefinedResult == [success |-> FALSE, reason |-> "undefined", threw |-> FALSE]

\* a loop that tests only the financial status
SkipsOnlyRefunded(order) == order.financial_status = "refunded"

\* syncPendingOrders: the orders the loop passes over with `continue`
Skipped(order) ==
  \/ order.financial_status = "refunded"
  \/ order.fulfillment_status = "cancelled"

\* the outcomes of the orders the loop passes over from index i on
RECURSIVE SkipRun(_, _)
SkipRun(page, i) ==
  IF i <= Len(page) /\ Skipped(page[i])
  THEN << "skipped" >> \o SkipRun(page, i + 1)
  ELSE << >>

\* an endpoint that answers 500 when an item has failed
FailuresAs500(synced, failed, total) ==
  IF failed > 0 THEN [status |-> 500, success |-> FALSE]
  ELSE [status |-> 200, synced |-> synced, failed |-> failed, total |-> total]

\* syncPendingOrders returns {synced, failed, total}; syncAllOrders and
\* POST /api/sync-now answer res.json({success: true, data: result})
BatchResponse(synced, failed, total) ==
  [status |-> 200, synced |-> synced, failed |-> failed, total |-> total]

\* a batch at loop index i: past the skipped orders, then syncOrder or return
BatchAt(t0, i) ==
  LET run == SkipRun(t0.page, i)
      j == i + Len(run)
      t1 == [t0 EXCEPT !.i = j, !.outcomes = @ \o run, !.result = Null]
  IN IF j <= Len(t0.page)
     THEN [t1 EXCEPT !.pc = "guard"]
     ELSE [t1 EXCEPT !.pc = "done",
                     !.response = BatchResponse(t0.synced, t0.failed, Len(t0.page))]

\* trigger and autoSync note what began the invocation (a request or a cron
\* tick) and process.env.ENABLE_AUTO_SYNC at that moment
NewTask(kind, page) ==
  [kind |-> kind, pc |-> "guard", page |-> page, i |-> 1, cid |-> Null,
   tags |-> Null, synced |-> 0, failed |-> 0, outcomes |-> << >>,
   reply |-> "none", result |-> Null, response |-> Null,
   trigger |-> "request", autoSync |-> env]

Init ==
  /\ shop \in [Orders -> InitOrders]
  /\ carrier = {}
  /\ syncLog = << >>
  /\ task = [t \in Tasks |-> IdleTask]
  /\ env = "undefined"
  /\ probe = ProbeOff
  /\ clock = 0
  /\ settings = (env # "false")
  /\ cron = NoJobs
  /\ shipment = [o \in Orders |-> "none"]

\* POST /webhooks/orders: handleOrderCreated on the delivered order
OrderCreatedWebhook(t, o) ==
  /\ task[t].pc = "idle"
  /\ task' = [task EXCEPT ![t] =
       IF env # "false"
       THEN NewTask("created", << Snapshot(o) >>)
       ELSE [NewTask("created", << Snapshot(o) >>) EXCEPT
               !.pc = "done", !.response = [status |-> 200, success |-> TRUE]]]
  /\ UNCHANGED <<shop, carrier, syncLog, env, probe, shipment, clock, settings, cron>>

\* POST /webhooks/orders/updated: handleOrderUpdated on the delivered order
OrderUpdatedWebhook(t, o) ==
  /\ task[t].pc = "idle"
  /\ task' = [task EXCEPT ![t] =
       IF /\ shop[o].financial_status = "paid"
          /\ extractConsignmentId(shop[o].note) = Null
          /\ env # "false"
       THEN NewTask("updated", << Snapshot(o) >>)
       ELSE [NewTask("updated", << Snapshot(o) >>) EXCEPT
               !.pc = "done", !.response = [status |-> 200, success |-> TRUE]]]
  /\ UNCHANGED <<shop, carrier, syncLog, env, probe, shipment, clock, settings, cron>>

\* POST /orders/:orderId/sync: getOrder, then syncOrder
ManualSync(t, o) ==
  /\ task[t].pc = "idle"
  /\ \E fetched \in BOOLEAN :
       task' = [task EXCEPT ![t] =
         IF fetched
         THEN NewTask("manual", << Snapshot(o) >>)
         ELSE [NewTask("manual", << >>) EXCEPT
                 !.pc = "done", !.response = [status |-> 500, success |-> FALSE]]]
  /\ UNCHANGED <<shop, carrier, syncLog, env, probe, shipment, clock, settings, cron>>

\* syncPendingOrders (cron tick, /orders/sync-all, /api/sync-now): getAllOrders
BatchSync(t) ==
  /\ task[t].pc = "idle"
  /\ \E fetched \in BOOLEAN :
       task' = [task EXCEPT ![t] =
         IF fetched
         THEN BatchAt(NewTask("batch", [o \in Orders |-> Snapshot(o)]), 1)
         ELSE [NewTask("batch", << >>) EXCEPT
                 !.pc = "done", !.response = [status |-> 500, success |-> FALSE]]]
  /\ UNCHANGED <<shop, carrier, syncLog, env, probe, shipment, clock, settings, cron>>

\* syncOrder, the guard: the delivered note already holds the token
SyncOrderGuard(t) ==
  /\ task[t].pc = "guard"
  /\ AlreadySynced(Current(t).note)
  /\ task' = [task EXCEPT ![t].pc = "returned", ![t].result = AlreadySyncedResult]
  /\ UNCHANGED <<shop, carrier, syncLog, env, probe, shipment, clock, settings, cron>>

\* what the carrier answers to the softdata upload: 2xx with consignment_id,
\* 2xx without one, or an error status (the client rejects)
CarrierReplies == {"id", "no_id", "error"}

\* a check that takes every 2xx answer for a created consignment
AnyAnswerHasId(reply) == reply # "error"

\* createConsignment: if (response.data && response.data.consignment_id)
HasConsignmentId(reply) == reply = "id"

\* a createConsignment that answers {success: false} for a missing id
MissingIdReturnsFailure == "return"

\* createConsignment without an id: throw new Error("No consignment ID in
\* response"); it never returns an object whose success is false
MissingIdOutcome == "throw"

\* syncOrder -> ShipsyService.createConsignment: the carrier creates the
\* consignment and answers with its id, or answers without one, or the
\* request fails; without an id the call throws
CreateConsignment(t) ==
  /\ task[t].pc = "guard"
  /\ ~AlreadySynced(Current(t).note)
  /\ \E reply \in CarrierReplies :
       /\ reply = "id" => CanIssue
       /\ carrier' = IF reply = "id"
                     THEN carrier \cup { [order |-> Current(t).id, id |-> NextId] }
                     ELSE carrier
       /\ task' = [task EXCEPT ![t] =
            IF reply = "error"
            THEN [@ EXCEPT !.pc = "returned", !.reply = reply,
                           !.result = Thrown("request failed")]
            ELSE IF HasConsignmentId(reply)
            THEN [@ EXCEPT !.pc = "note", !.reply = reply,
                           !.cid = IF reply = "id" THEN NextId ELSE Null]
            ELSE [@ EXCEPT !.pc = "returned", !.reply = reply,
                           !.result = IF MissingIdOutcome = "throw"
                                      THEN Thrown("No consignment ID in response")
                                      ELSE UndefinedResult]]
  /\ UNCHANGED <<shop, syncLog, env, probe, shipment, clock, settings, cron>>

\* ShopifyService.updateOrderNote: PUT order {note}: the stored note becomes note
StoredNote(old, note) == note

\* syncOrder -> ShopifyService.updateOrderNote
UpdateOrderNote(t) ==
  /\ task[t].pc = "note"
  /\ \/ \E now \in MachineClock :
          /\ shop' = [shop EXCEPT ![Current(t).id].note =
                        StoredNote(@, SyncNote(task[t].cid, now))]
          /\ task' = [task EXCEPT ![t].pc = "tagget"]
     \/ /\ task' = [task EXCEPT ![t].pc = "returned",
                                ![t].result = Thrown("updateOrderNote failed")]
        /\ UNCHANGED shop
  /\ UNCHANGED <<carrier, syncLog, env, probe, shipment, clock, settings, cron>>

\* syncOrder -> ShopifyService.addOrderTag, its getOrder
AddOrderTagGet(t) ==
  /\ task[t].pc = "tagget"
  /\ \/ task' = [task EXCEPT ![t].pc = "tagput",
                             ![t].tags = shop[Current(t).id].tags]
     \/ task' = [task EXCEPT ![t].pc = "returned",
                             ![t].result = Thrown("getOrder failed")]
  /\ UNCHANGED <<shop, carrier, syncLog, env, probe, shipment, clock, settings, cron>>

\* addOrderTag without the push: the tag list is written back as it was read
TagsNoPush(tags, tag) ==
  join(IF Falsy(tags) THEN << >> ELSE split(tags, TagSeparator), TagSeparator)

\* addOrderTag: split the tag list, push the tag unless present, join
TagsWith(tags, tag) ==
  LET list == IF Falsy(tags) THEN << >> ELSE split(tags, TagSeparator)
  IN join(IF arrayIncludes(list, tag) THEN list ELSE Append(list, tag), TagSeparator)

\* syncOrder -> ShopifyService.addOrderTag, its PUT order {tags}; then syncOrder
\* returns {success: true, orderId, consignmentId}
AddOrderTagPut(t) ==
  /\ task[t].pc = "tagput"
  /\ \/ /\ shop' = [shop EXCEPT ![Current(t).id].tags =
                      TagsWith(task[t].tags, ShipsySyncedTag)]
        /\ task' = [task EXCEPT ![t].pc = "returned",
                                ![t].result = [success |-> TRUE, threw |-> FALSE,
                                               orderId |-> Current(t).id,
                                               consignmentId |-> task[t].cid]]
     \/ /\ task' = [task EXCEPT ![t].pc = "returned",
                                ![t].result = Thrown("addOrderTag failed")]
        /\ UNCHANGED shop
  /\ UNCHANGED <<carrier, syncLog, env, probe, shipment, clock, settings, cron>>

\* a loop that counts every call that returned
CountsEveryReturn(result) == ~result.threw

\* syncPendingOrders: if (result.success) synced++
CountsAsSynced(result) == ~result.threw /\ result.success

\* a catch block that does not count
NeverCountsFailed(result) == FALSE

\* syncPendingOrders: catch (error) { failed++ }
\* (reading result.success of an undefined result throws into the same catch)
CountsAsFailed(result) == result.threw \/ result = UndefinedResult

OutcomeOf(result) ==
  IF result.threw THEN "threw"
  ELSE IF result.success THEN "success" ELSE result.reason

\* syncOrder has returned or thrown: the caller goes on
SyncOrderReturns(t) ==
  /\ task[t].pc = "returned"
  /\ LET r == task[t].result
     IN task' = [task EXCEPT ![t] =
          IF task[t].kind = "batch"
          THEN BatchAt([task[t] EXCEPT
                          !.synced = IF CountsAsSynced(r) THEN @ + 1 ELSE @,
                          !.failed = IF CountsAsFailed(r) THEN @ + 1 ELSE @,
                          !.outcomes = Append(@, OutcomeOf(r)),
                          !.cid = Null, !.tags = Null, !.reply = "none"],
                       task[t].i + 1)
          ELSE [task[t] EXCEPT
                  !.pc = "done",
                  !.response =
                    IF r.threw THEN [status |-> 500, success |-> FALSE]
                    ELSE [status |-> 200, success |-> TRUE]]]
  /\ UNCHANGED <<shop, carrier, syncLog, env, probe, shipment, clock, settings, cron>>

\* the response is sent; the invocation is over
Finish(t) ==
  /\ task[t].pc = "done"
  /\ task' = [task EXCEPT ![t] = IdleTask]
  /\ UNCHANGED <<shop, carrier, syncLog, env, probe, shipment, clock, settings, cron>>

TaskStep(t) ==
  \/ \E o \in Orders : OrderCreatedWebhook(t, o)
  \/ \E o \in Orders : OrderUpdatedWebhook(t, o)
  \/ \E o \in Orders : ManualSync(t, o)
  \/ BatchSync(t)
  \/ SyncOrderGuard(t)
  \/ CreateConsignment(t)
  \/ UpdateOrderNote(t)
  \/ AddOrderTagGet(t)
  \/ AddOrderTagPut(t)
  \/ SyncOrderReturns(t)
  \/ Finish(t)

\* one invocation at a time
Next == TaskStep(1)

Spec == Init /\ [][Next]_vars

\* invocations overlap: every await is a point where another one may run
NextOverlap == \E t \in Tasks : TaskStep(t)

\* every order of the store is paid, unfulfilled and not yet synced
InitOverlap ==
  /\ Init
  /\ \A o \in Orders :
       shop[o].financial_status = "paid" /\ shop[o].fulfillment_status = "null"

SpecOverlap == InitOverlap /\ [][NextOverlap]_vars

InitProbe ==
  /\ shop = [o \in Orders |-> CHOOSE x \in InitOrders : x.note = Null /\ x.financial_status = "paid"]
  /\ carrier = {}
  /\ syncLog = << >>
  /\ task = [t \in Tasks |-> IdleTask]
  /\ env = "undefined"
  /\ probe \in ProbeInputs
  /\ clock = 0
  /\ settings = (env # "false")
  /\ cron = NoJobs
  /\ shipment = [o \in Orders |-> "none"]

NextProbe == ProbeEncode \/ ProbeExtract \/ ProbeClassify

SpecProbe == InitProbe /\ [][NextProbe]_vars

----------------------------------------------------------------------------
(* Reconciliation: updateConsignmentStatuses over the carrier's statuses *)

\* settings.shipmentStatuses: carrier status -> order-source status, notify
shipmentStatuses ==
  ( "pickup_scheduled" :> [shopifyStatus |-> "pending", notify |-> TRUE] ) @@
  ( "out_for_pickup" :> [shopifyStatus |-> "processing", notify |-> TRUE] ) @@
  ( "reached_at_hub" :> [shopifyStatus |-> "processing", notify |-> FALSE] ) @@
  ( "outfordelivery" :> [shopifyStatus |-> "processing", notify |-> TRUE] ) @@
  ( "attempted" :> [shopifyStatus |-> "processing", notify |-> TRUE] ) @@
  ( "delivered" :> [shopifyStatus |-> "completed", notify |-> TRUE] ) @@
  ( "cancelled" :> [shopifyStatus |-> "cancelled", notify |-> TRUE] )

\* the constants' list of supported shipment statuses
SUPPORTED_SHIPMENT_STATUSES ==
  { "pickup_scheduled", "out_for_pickup", "reached_at_hub", "outfordelivery",
    "attempted", "delivered", "cancelled" }

\* the keys of Shipment.getStatusDescription's statusMap: the consignment
\* statuses the Shipment model knows
statusMap ==
  { "pickup_scheduled", "out_for_pickup", "reached_at_hub", "in_transit",
    "outfordelivery", "attempted", "delivered", "cancelled", "pending" }

\* the current_status values a status answer of the carrier can carry;
\* "none" is an answer without current_status
CarrierStatuses == statusMap \cup SUPPORTED_SHIPMENT_STATUSES \cup {"none"}

\* a table that lost its outfordelivery entry
MappingWithoutOutForDelivery(s) ==
  s \in DOMAIN shipmentStatuses \ {"outfordelivery"}

\* updateOrderFromShipmentStatus: settings.shipmentStatuses[current_status]
\* is there (the code tests !statusMapping)
HasMapping(s) == s \in DOMAIN shipmentStatuses

\* an unknown status that is thrown instead of logged
UnmappedThrows == "threw"

\* updateOrderFromShipmentStatus on an unknown status: logger.warn, return
UnmappedResult == "unmapped"

\* a message for every mapped status
AlwaysNotifies(s) == TRUE

\* updateOrderFromShipmentStatus: if (statusMapping.notify)
Notifies(s) == shipmentStatuses[s].notify

\* a PUT that replaces the order: fields it does not name are emptied
PutReplacesOrder(order, status) ==
  [order EXCEPT !.financial_status = status, !.note = Null, !.tags = << >>]

\* ShopifyService.updateOrderStatus: PUT order {id, financial_status}
StoredOrder(order, status) == [order EXCEPT !.financial_status = status]

\* the text of the customer message: it names the status
OrderMessage(s) == << "#", s >>

\* a message stored as the note of the order
MessageAsOrderNote(order, message) == [order EXCEPT !.note = message]

\* ShopifyService.sendOrderMessage: POST fulfillment_orders {id, note: message};
\* the order itself stays as it is
MessagedOrder(order, message) == order

\* a catch block that does not count
ReconNeverCountsFailed(res) == FALSE

\* updateConsignmentStatuses: catch (error) { failed++ }
ReconCountsFailed(res) == res = "threw"

\* updateConsignmentStatuses: updated++ after updateOrderFromShipmentStatus
\* has returned, also when it returned at the unknown-status warning
ReconCountsUpdated(res) == res \in {"updated", "unmapped"}

\* what the loop did for one order: the status the carrier gave, the status
\* updateOrderStatus was called with, whether that write was stored, whether
\* sendOrderMessage was called
ReconOutcome(res, s, call, written, messaged) ==
  [res |-> res, status |-> s, statusCall |-> call, written |-> written,
   messageCall |-> messaged]

SkippedOutcome == ReconOutcome("skipped", "none", "none", FALSE, FALSE)

\* updateConsignmentStatuses: the orders passed over with `continue`
RECURSIVE ReconSkipRun(_, _)
ReconSkipRun(page, i) ==
  IF i <= Len(page) /\ extractConsignmentId(page[i].note) = Null
  THEN << SkippedOutcome >> \o ReconSkipRun(page, i + 1)
  ELSE << >>

\* the loop at index i: past the orders without an id, then the status
\* query or the return of {updated, failed}
ReconAt(t0, i) ==
  LET run == ReconSkipRun(t0.page, i)
      j == i + Len(run)
      t1 == [t0 EXCEPT !.i = j, !.outcomes = @ \o run, !.status = "none"]
  IN IF j <= Len(t0.page)
     THEN [t1 EXCEPT !.pc = "query"]
     ELSE [t1 EXCEPT !.pc = "done",
                     !.response = [status |-> 200, updated |-> t0.updated,
                                   failed |-> t0.failed]]

\* the loop body is over for the current order: count, go on
ReconNext(t0, outcome) ==
  ReconAt([t0 EXCEPT
             !.updated = IF ReconCountsUpdated(outcome.res) THEN @ + 1 ELSE @,
             !.failed = IF ReconCountsFailed(outcome.res) THEN @ + 1 ELSE @,
             !.outcomes = Append(@, outcome)],
          t0.i + 1)

NewRecon(page) ==
  [kind |-> "recon", pc |-> "query", page |-> page, i |-> 1, status |-> "none",
   updated |-> 0, failed |-> 0, outcomes |-> << >>, response |-> Null]

\* updateConsignmentStatuses (status cron tick): getAllOrders({limit: 100})
UpdateConsignmentStatuses(t) ==
  /\ task[t].pc = "idle"
  /\ \E fetched \in BOOLEAN :
       task' = [task EXCEPT ![t] =
         IF fetched
         THEN ReconAt(NewRecon([o \in Orders |-> Snapshot(o)]), 1)
         ELSE [NewRecon(<< >>) EXCEPT
                 !.pc = "done", !.response = [status |-> 500, success |-> FALSE]]]
  /\ UNCHANGED <<shop, carrier, syncLog, env, probe, shipment, clock, settings, cron>>

\* ShipsyService.getConsignmentStatus for the id of the note, then the test
\* `status && status.current_status` and the lookup of the mapping
GetConsignmentStatus(t) ==
  /\ task[t].pc = "query"
  /\ \E answered \in BOOLEAN :
       LET s == shipment[Current(t).id]
       IN task' = [task EXCEPT ![t] =
            IF ~answered
            THEN ReconNext(@, ReconOutcome("threw", "none", "none", FALSE, FALSE))
            ELSE IF s = "none"
            THEN ReconNext(@, ReconOutcome("no_status", s, "none", FALSE, FALSE))
            ELSE IF ~HasMapping(s)
            THEN ReconNext(@, ReconOutcome(UnmappedResult, s, "none", FALSE, FALSE))
            ELSE [@ EXCEPT !.pc = "write", !.status = s]]
  /\ UNCHANGED <<shop, carrier, syncLog, env, probe, shipment, clock, settings, cron>>

\* updateOrderFromShipmentStatus -> ShopifyService.updateOrderStatus
UpdateOrderStatus(t) ==
  /\ task[t].pc = "write"
  /\ LET s == task[t].status
         to == shipmentStatuses[s].shopifyStatus
     IN \/ /\ shop' = [shop EXCEPT ![Current(t).id] = StoredOrder(@, to)]
           /\ task' = [task EXCEPT ![t] =
                IF Notifies(s)
                THEN [@ EXCEPT !.pc = "message"]
                ELSE ReconNext(@, ReconOutcome("updated", s, to, TRUE, FALSE))]
        \/ /\ task' = [task EXCEPT ![t] =
                ReconNext(@, ReconOutcome("threw", s, to, FALSE, FALSE))]
           /\ UNCHANGED shop
  /\ UNCHANGED <<carrier, syncLog, env, probe, shipment, clock, settings, cron>>

\* updateOrderFromShipmentStatus -> ShopifyService.sendOrderMessage
SendOrderMessage(t) ==
  /\ task[t].pc = "message"
  /\ LET s == task[t].status
         to == shipmentStatuses[s].shopifyStatus
     IN \/ /\ shop' = [shop EXCEPT ![Current(t).id] =
                         MessagedOrder(@, OrderMessage(s))]
           /\ task' = [task EXCEPT ![t] =
                ReconNext(@, ReconOutcome("updated", s, to, TRUE, TRUE))]
        \/ /\ task' = [task EXCEPT ![t] =
                ReconNext(@, ReconOutcome("threw", s, to, TRUE, TRUE))]
           /\ UNCHANGED shop
  /\ UNCHANGED <<carrier, syncLog, env, probe, shipment, clock, settings, cron>>

\* the endpoints that work on the consignment of an order
ConsignmentEndpoints == {"label", "status", "cancel"}

\* OrderController.downloadLabel / getShipmentStatus / cancelShipment:
\* getOrder, extractConsignmentId of its note, then the carrier call; 400
\* without an id, 500 when a call throws
ConsignmentEndpoint(t, o) ==
  /\ task[t].pc = "idle"
  /\ \E endpoint \in ConsignmentEndpoints, fetched \in BOOLEAN, answered \in BOOLEAN :
       task' = [task EXCEPT ![t] =
         [kind |-> endpoint, pc |-> "done",
          page |-> IF fetched THEN << Snapshot(o) >> ELSE << >>,
          response |->
            IF ~fetched THEN [status |-> 500, success |-> FALSE]
            ELSE IF extractConsignmentId(shop[o].note) = Null
            THEN [status |-> 400, success |-> FALSE]
            ELSE IF ~answered THEN [status |-> 500, success |-> FALSE]
            ELSE [status |-> 200, success |-> TRUE]]]
  /\ UNCHANGED <<shop, carrier, syncLog, env, probe, shipment, clock, settings, cron>>

ReconStep(t) ==
  \/ UpdateConsignmentStatuses(t)
  \/ GetConsignmentStatus(t)
  \/ UpdateOrderStatus(t)
  \/ SendOrderMessage(t)
  \/ Finish(t)

\* the ids of the consignments of the orders a run starts from
PriorId(o) == << DigitChar[o + 1] >>

\* an order as an earlier syncOrder left it
SyncedOrder(id) ==
  [note |-> SyncNote(id, 0), tags |-> TagsWith(<< >>, ShipsySyncedTag),
   financial_status |-> "paid", fulfillment_status |-> "null",
     shipping_address |-> CompleteAddress, line_items |-> 1]

UnsyncedOrder ==
  [note |-> Null, tags |-> << >>,
   financial_status |-> "paid", fulfillment_status |-> "null",
     shipping_address |-> CompleteAddress, line_items |-> 1]

\* the store a reconciliation run meets: every order is unsynced, or synced
\* with a digits-only id and some carrier status, or synced with the
\* carrier's alphanumeric id
InitRecon ==
  /\ \E kind \in [Orders -> {"unsynced", "synced", "alnum"}] :
       /\ shop = [o \in Orders |->
                    CASE kind[o] = "unsynced" -> UnsyncedOrder
                      [] kind[o] = "synced" -> SyncedOrder(PriorId(o))
                      [] OTHER -> SyncedOrder(CarrierIdPool[2])]
       /\ carrier = { [order |-> o,
                       id |-> IF kind[o] = "synced" THEN PriorId(o)
                              ELSE CarrierIdPool[2]] :
                      o \in { x \in Orders : kind[x] # "unsynced" } }
       /\ shipment \in [Orders -> CarrierStatuses]
       /\ \A o \in Orders : kind[o] # "synced" => shipment[o] = "none"
  /\ syncLog = << >>
  /\ task = [t \in Tasks |-> IdleTask]
  /\ env = "undefined"
  /\ probe = ProbeOff
  /\ clock = 0
  /\ settings = (env # "false")
  /\ cron = NoJobs

\* one reconciliation run at a time
NextRecon == ReconStep(1)

SpecRecon == InitRecon /\ [][NextRecon]_vars

\* the statuses the carrier reports while syncs and reconciliation overlap:
\* one mapped with notify, one mapped without, one without an entry
RaceStatuses == {"delivered", "reached_at_hub", "in_transit"}

\* every order is paid, unfulfilled and not yet synced; the carrier will
\* report one of RaceStatuses (only the order that gets the digits-only id
\* of the pool is ever queried, so one status for all orders loses nothing)
InitRace ==
  /\ shop = [o \in Orders |-> UnsyncedOrder]
  /\ carrier = {}
  /\ \E s \in RaceStatuses : shipment = [o \in Orders |-> s]
  /\ syncLog = << >>
  /\ task = [t \in Tasks |-> IdleTask]
  /\ env = "undefined"
  /\ probe = ProbeOff
  /\ clock = 0
  /\ settings = (env # "false")
  /\ cron = NoJobs

\* syncs run as invocation 1; reconciliation runs and the label, status and
\* cancel endpoints run as invocation 2; the two interleave at every await
NextRace ==
  \/ TaskStep(1)
  \/ ReconStep(2)
  \/ \E o \in Orders : ConsignmentEndpoint(2, o)

SpecRace == InitRace /\ [][NextRace]_vars

\* every operation of the system, one at a time: syncs, reconciliation
\* runs and the label, status and cancel endpoints
NextSeq ==
  \/ TaskStep(1)
  \/ ReconStep(1)
  \/ \E o \in Orders : ConsignmentEndpoint(1, o)

SpecSeq == InitRace /\ [][NextSeq]_vars

\* the shipping addresses of the orders a webhook or a page can deliver:
\* complete, without a phone, or no shipping address at all
DeliveredAddresses == { CompleteAddress, CompleteAddress \ {"phone"}, {} }

\* paid, unsynced orders with any of these addresses and one or no line item
InitDelivered ==
  /\ shop \in [Orders -> { [UnsyncedOrder EXCEPT !.shipping_address = a,
                                                 !.line_items = n] :
                            a \in DeliveredAddresses, n \in {0, 1} }]
  /\ carrier = {}
  /\ shipment = [o \in Orders |-> "none"]
  /\ syncLog = << >>
  /\ task = [t \in Tasks |-> IdleTask]
  /\ env = "undefined"
  /\ probe = ProbeOff
  /\ clock = 0
  /\ settings = (env # "false")
  /\ cron = NoJobs

SpecDelivered == InitDelivered /\ [][Next]_vars

----------------------------------------------------------------------------
(* ShopifyService.addOrderTag as a call of its own *)

UrgentTag == << "u", "r", "g", "e", "n", "t" >>

\* the tags addOrderTag is called with
AddedTags == { ShipsySyncedTag, UrgentTag }

\* addOrderTag(orderId, tag): the call starts
AddOrderTag(t, o, tag) ==
  /\ task[t].pc = "idle"
  /\ task' = [task EXCEPT ![t] =
       [kind |-> "tag", pc |-> "get", order |-> o, tag |-> tag, tags |-> Null,
        ok |-> FALSE]]
  /\ UNCHANGED <<shop, carrier, syncLog, env, probe, shipment, clock, settings, cron>>

\* addOrderTag: const order = await this.getOrder(orderId)
AddOrderTagRead(t) ==
  /\ task[t].pc = "get"
  /\ \/ task' = [task EXCEPT ![t].pc = "put", ![t].tags = shop[task[t].order].tags]
     \/ task' = [task EXCEPT ![t].pc = "done"]
  /\ UNCHANGED <<shop, carrier, syncLog, env, probe, shipment, clock, settings, cron>>

\* addOrderTag: split, push unless included, PUT order {id, tags: join}
AddOrderTagWrite(t) ==
  /\ task[t].pc = "put"
  /\ \/ /\ shop' = [shop EXCEPT ![task[t].order].tags =
                      TagsWith(task[t].tags, task[t].tag)]
        /\ task' = [task EXCEPT ![t].pc = "done", ![t].ok = TRUE]
     \/ /\ task' = [task EXCEPT ![t].pc = "done"]
        /\ UNCHANGED shop
  /\ UNCHANGED <<carrier, syncLog, env, probe, shipment, clock, settings, cron>>

TagStep(t) ==
  \/ \E o \in Orders, tag \in AddedTags : AddOrderTag(t, o, tag)
  \/ AddOrderTagRead(t)
  \/ AddOrderTagWrite(t)
  \/ Finish(t)

\* the orders have no tags, or the tags "vip, gift"
InitTags ==
  /\ shop \in [Orders -> { [UnsyncedOrder EXCEPT !.tags = tags] :
                            tags \in { << >>, VipGift } }]
  /\ carrier = {}
  /\ shipment = [o \in Orders |-> "none"]
  /\ syncLog = << >>
  /\ task = [t \in Tasks |-> IdleTask]
  /\ env = "undefined"
  /\ probe = ProbeOff
  /\ clock = 0
  /\ settings = (env # "false")
  /\ cron = NoJobs

\* addOrderTag calls overlap at their awaits
NextTags == \E t \in Tasks : TagStep(t)

SpecTags == InitTags /\ [][NextTags]_vars

----------------------------------------------------------------------------
(* utils/helpers.js: retry *)

MaxRetries == 3
MaxDelayMs == 2
MaxBackoff == 2

\* what fn returns, and what it throws
FnValues == { "v1", "v2" }
FnErrors == { "e1", "e2" }

RECURSIVE Pow(_, _)
\* Math.pow(backoff, attempt)
Pow(b, k) == IF k = 0 THEN 1 ELSE b * Pow(b, k - 1)

\* mutant: retry that waits after every failed attempt
WaitsAfterEveryFailure(attempt, maxRetries) == TRUE

\* retry: if (attempt < maxRetries - 1)
WaitsBeforeNextAttempt(attempt, maxRetries) == attempt < maxRetries - 1

\* retry: const waitTime = delayMs * Math.pow(backoff, attempt)
waitTime(delayMs, backoff, attempt) == delayMs * Pow(backoff, attempt)

\* retry(fn, {maxRetries, delayMs, backoff}): let lastError; the for loop is
\* entered, or left at once (throw lastError, still undefined)
Retry(t, maxRetries, delayMs, backoff) ==
  /\ task[t].pc = "idle"
  /\ task' = [task EXCEPT ![t] =
       [kind |-> "retry",
        pc |-> IF 0 < maxRetries THEN "call" ELSE "done",
        maxRetries |-> maxRetries, delayMs |-> delayMs, backoff |-> backoff,
        attempt |-> 0, lastError |-> "undefined",
        calls |-> << >>, waits |-> << >>,
        result |-> IF 0 < maxRetries
                     THEN [threw |-> FALSE, value |-> "none"]
                     ELSE [threw |-> TRUE, value |-> "undefined"]]]
  /\ UNCHANGED <<shop, carrier, syncLog, env, probe, shipment, clock, settings, cron>>

\* retry: return await fn(); catch: lastError = error, then the delay, or the
\* loop ends and throw lastError
RetryCall(t) ==
  /\ task[t].kind = "retry"
  /\ task[t].pc = "call"
  /\ LET r == task[t] IN
       \/ \E v \in FnValues :
            task' = [task EXCEPT ![t].pc = "done",
                                 ![t].calls = Append(r.calls, [ok |-> TRUE, value |-> v]),
                                 ![t].result = [threw |-> FALSE, value |-> v]]
       \/ \E e \in FnErrors :
            IF WaitsBeforeNextAttempt(r.attempt, r.maxRetries)
              THEN task' = [task EXCEPT
                     ![t].pc = "delay",
                     ![t].lastError = e,
                     ![t].calls = Append(r.calls, [ok |-> FALSE, value |-> e]),
                     ![t].waits = Append(r.waits,
                                    waitTime(r.delayMs, r.backoff, r.attempt))]
              ELSE IF r.attempt + 1 < r.maxRetries
                THEN task' = [task EXCEPT
                       ![t].attempt = r.attempt + 1,
                       ![t].lastError = e,
                       ![t].calls = Append(r.calls, [ok |-> FALSE, value |-> e])]
                ELSE task' = [task EXCEPT
                       ![t].pc = "done",
                       ![t].attempt = r.attempt + 1,
                       ![t].lastError = e,
                       ![t].calls = Append(r.calls, [ok |-> FALSE, value |-> e]),
                       ![t].result = [threw |-> TRUE, value |-> e]]
  /\ UNCHANGED <<shop, carrier, syncLog, env, probe, shipment, clock, settings, cron>>

\* retry: await delay(waitTime) is over; attempt++
RetryDelay(t) ==
  /\ task[t].kind = "retry"
  /\ task[t].pc = "delay"
  /\ task' = [task EXCEPT ![t].pc = "call", ![t].attempt = task[t].attempt + 1]
  /\ UNCHANGED <<shop, carrier, syncLog, env, probe, shipment, clock, settings, cron>>

RetryStep(t) ==
  \/ \E m \in 0..MaxRetries, d \in 0..MaxDelayMs, b \in 1..MaxBackoff :
       Retry(t, m, d, b)
  \/ RetryCall(t)
  \/ RetryDelay(t)
  \/ Finish(t)

InitRetry ==
  /\ shop = [o \in Orders |-> UnsyncedOrder]
  /\ carrier = {}
  /\ shipment = [o \in Orders |-> "none"]
  /\ syncLog = << >>
  /\ task = [t \in Tasks |-> IdleTask]
  /\ env = "undefined"
  /\ probe = ProbeOff
  /\ clock = 0
  /\ settings = (env # "false")
  /\ cron = NoJobs

NextRetry == RetryStep(1)

SpecRetry == InitRetry /\ [][NextRetry]_vars

----------------------------------------------------------------------------
(* models/sync-log.js: the log file and its pruning *)

MaxLog == 3
MaxDay == 3
MaxDaysOld == 2

\* logSync, logStatusUpdate, logError
LogTypes == { "sync", "status_update", "error" }

\* a filter that keeps the entries written at the cutoff as well
NotBeforeCutoff(timestamp, now, daysOld) == timestamp >= now - daysOld

\* clearOldLogs: cutoffDate.setDate(cutoffDate.getDate() - daysOld);
\* return logDate > cutoffDate
LaterThanCutoff(timestamp, now, daysOld) == timestamp > now - daysOld

\* clearOldLogs: logs.filter(...)
recentLogs(logs, now, daysOld) ==
  LET Recent(log) == LaterThanCutoff(log.timestamp, now, daysOld)
  IN SelectSeq(logs, Recent)

\* logSync / logStatusUpdate / logError: timestamp: new Date(), then
\* writeLog appends the line to the file
WriteLog(type) ==
  /\ Len(syncLog) < MaxLog
  /\ syncLog' = Append(syncLog, [timestamp |-> clock, type |-> type])
  /\ UNCHANGED <<shop, carrier, task, env, probe, shipment, clock, settings, cron>>

\* a day passes
Midnight ==
  /\ clock < MaxDay
  /\ clock' = clock + 1
  /\ UNCHANGED <<shop, carrier, syncLog, task, env, probe, shipment, settings, cron>>

\* SyncLog.clearOldLogs(daysOld): getLogs, filter, writeFileSync, the counts;
\* or the file system refuses and the catch answers {success: false}
ClearOldLogs(t, daysOld) ==
  /\ task[t].pc = "idle"
  /\ \/ LET recent == recentLogs(syncLog, clock, daysOld) IN
          /\ syncLog' = recent
          /\ task' = [task EXCEPT ![t] =
               [kind |-> "clear", pc |-> "done", daysOld |-> daysOld,
                response |-> [success |-> TRUE,
                              removed |-> Len(syncLog) - Len(recent),
                              remaining |-> Len(recent)]]]
     \/ /\ task' = [task EXCEPT ![t] =
               [kind |-> "clear", pc |-> "done", daysOld |-> daysOld,
                response |-> [success |-> FALSE]]]
        /\ UNCHANGED syncLog
  /\ UNCHANGED <<shop, carrier, env, probe, shipment, clock, settings, cron>>

\* SyncLogController.clearAllLogs: SyncLog.clearOldLogs(0), then
\* res.json({success: result.success, message})
ClearAllLogs(t) ==
  /\ task[t].pc = "idle"
  /\ \/ /\ syncLog' = recentLogs(syncLog, clock, 0)
        /\ task' = [task EXCEPT ![t] =
               [kind |-> "clearAll", pc |-> "done",
                response |-> [success |-> TRUE]]]
     \/ /\ task' = [task EXCEPT ![t] =
               [kind |-> "clearAll", pc |-> "done",
                response |-> [success |-> FALSE]]]
        /\ UNCHANGED syncLog
  /\ UNCHANGED <<shop, carrier, env, probe, shipment, clock, settings, cron>>

InitLog ==
  /\ shop = [o \in Orders |-> UnsyncedOrder]
  /\ carrier = {}
  /\ shipment = [o \in Orders |-> "none"]
  /\ syncLog = << >>
  /\ task = [t \in Tasks |-> IdleTask]
  /\ env = "undefined"
  /\ probe = ProbeOff
  /\ clock = 0
  /\ settings = (env # "false")
  /\ cron = NoJobs

NextLog ==
  \/ \E type \in LogTypes : WriteLog(type)
  \/ Midnight
  \/ \E daysOld \in 0..MaxDaysOld : ClearOldLogs(1, daysOld)
  \/ ClearAllLogs(1)
  \/ Finish(1)

SpecLog == InitLog /\ [][NextLog]_vars

----------------------------------------------------------------------------
(* crons/sync-cron.js, crons/status-update-cron.js, updateSettings *)

\* node-cron jobs alive at once, at most (a bound of the model)
MaxJobs == 2

\* a start that never finds a job running
NeverRunning(job) == FALSE

\* startSyncCron: if (syncCronJob) return
SyncAlreadyRunning(job) == job # "null"

\* startStatusUpdateCron: if (statusUpdateCronJob) return
StatusUpdateAlreadyRunning(job) == job # "null"

\* startSyncCron: disabled, or already running, or cron.schedule returns the
\* job, or cron.schedule throws and the catch logs
startSyncCron(c, scheduled) ==
  IF ~settings THEN c
  ELSE IF SyncAlreadyRunning(c.syncCronJob) THEN c
  ELSE IF scheduled
    THEN [c EXCEPT !.syncCronJob = "job", !.syncJobs = @ + 1]
    ELSE c

\* stopSyncCron: if (syncCronJob) { syncCronJob.stop(); syncCronJob = null }
stopSyncCron(c) ==
  IF c.syncCronJob # "null"
  THEN [c EXCEPT !.syncCronJob = "null", !.syncJobs = @ - 1]
  ELSE c

startStatusUpdateCron(c, scheduled) ==
  IF ~settings THEN c
  ELSE IF StatusUpdateAlreadyRunning(c.statusUpdateCronJob) THEN c
  ELSE IF scheduled
    THEN [c EXCEPT !.statusUpdateCronJob = "job", !.statusJobs = @ + 1]
    ELSE c

stopStatusUpdateCron(c) ==
  IF c.statusUpdateCronJob # "null"
  THEN [c EXCEPT !.statusUpdateCronJob = "null", !.statusJobs = @ - 1]
  ELSE c

\* a call of one of the six functions; last and was note the call and the
\* job variable of its module as the call found it
CronCall(after, name, was) ==
  /\ after.syncJobs <= MaxJobs
  /\ after.statusJobs <= MaxJobs
  /\ cron' = [after EXCEPT !.last = name, !.was = was]
  /\ UNCHANGED <<shop, carrier, syncLog, task, env, probe, shipment, clock, settings>>

StartSyncCron ==
  \E scheduled \in BOOLEAN : CronCall(startSyncCron(cron, scheduled), "startSyncCron", cron.syncCronJob)

StopSyncCron == CronCall(stopSyncCron(cron), "stopSyncCron", cron.syncCronJob)

\* restartSyncCron: stopSyncCron(); startSyncCron()
RestartSyncCron ==
  \E scheduled \in BOOLEAN :
    CronCall(startSyncCron(stopSyncCron(cron), scheduled), "restartSyncCron",
             cron.syncCronJob)

StartStatusUpdateCron ==
  \E scheduled \in BOOLEAN :
    CronCall(startStatusUpdateCron(cron, scheduled), "startStatusUpdateCron",
             cron.statusUpdateCronJob)

StopStatusUpdateCron == CronCall(stopStatusUpdateCron(cron), "stopStatusUpdateCron",
           cron.statusUpdateCronJob)

\* restartStatusUpdateCron: stopStatusUpdateCron(); startStatusUpdateCron()
RestartStatusUpdateCron ==
  \E scheduled \in BOOLEAN :
    CronCall(startStatusUpdateCron(stopStatusUpdateCron(cron), scheduled),
             "restartStatusUpdateCron", cron.statusUpdateCronJob)

\* the sync section of the body of PUT /settings: absent, or enableAutoSync
SyncSections == { "absent", "true", "false" }

\* updateSettings: if (settings.sync) process.env.ENABLE_AUTO_SYNC =
\* settings.sync.enableAutoSync ? "true" : "false"; no cron job is touched
UpdateSettings(sync) ==
  /\ env' = IF sync = "absent" THEN env ELSE sync
  /\ UNCHANGED <<shop, carrier, syncLog, task, probe, shipment, clock, settings, cron>>

\* a tick of a scheduled sync job: syncService.syncPendingOrders({limit: 50})
SyncCronTick(t) ==
  /\ cron.syncJobs > 0
  /\ task[t].pc = "idle"
  /\ \E fetched \in BOOLEAN :
       task' = [task EXCEPT ![t] =
         IF fetched
         THEN [BatchAt(NewTask("batch", [o \in Orders |-> Snapshot(o)]), 1)
                 EXCEPT !.trigger = "cron"]
         ELSE [NewTask("batch", << >>) EXCEPT
                 !.pc = "done", !.trigger = "cron",
                 !.response = [status |-> 500, success |-> FALSE]]]
  /\ UNCHANGED <<shop, carrier, syncLog, env, probe, shipment, clock, settings, cron>>

\* a tick of a scheduled status-update job: updateConsignmentStatuses()
StatusUpdateCronTick(t) ==
  /\ cron.statusJobs > 0
  /\ UpdateConsignmentStatuses(t)

\* process.env.ENABLE_AUTO_SYNC when the server starts
InitCron ==
  /\ shop = [o \in Orders |-> UnsyncedOrder]
  /\ carrier = {}
  /\ shipment = [o \in Orders |-> "delivered"]
  /\ syncLog = << >>
  /\ task = [t \in Tasks |-> IdleTask]
  /\ env \in { "undefined", "true", "false" }
  /\ probe = ProbeOff
  /\ clock = 0
  /\ settings = (env # "false")
  /\ cron = NoJobs

\* the cron modules, the settings endpoint, the ticks of the scheduled jobs
\* and the webhooks and endpoints, one invocation at a time
NextCron ==
  \/ StartSyncCron
  \/ StopSyncCron
  \/ RestartSyncCron
  \/ StartStatusUpdateCron
  \/ StopStatusUpdateCron
  \/ RestartStatusUpdateCron
  \/ \E sync \in SyncSections : UpdateSettings(sync)
  \/ SyncCronTick(1)
  \/ StatusUpdateCronTick(1)
  \/ TaskStep(1)
  \/ GetConsignmentStatus(1)
  \/ UpdateOrderStatus(1)
  \/ SendOrderMessage(1)

SpecCron == InitCron /\ [][NextCron]_vars

\* the cron modules, the settings endpoint and the ticks of the
\* status-update job while no order has a consignment yet
NextJobs ==
  \/ StartSyncCron
  \/ StopSyncCron
  \/ RestartSyncCron
  \/ StartStatusUpdateCron
  \/ StopStatusUpdateCron
  \/ RestartStatusUpdateCron
  \/ \E sync \in SyncSections : UpdateSettings(sync)
  \/ StatusUpdateCronTick(1)
  \/ Finish(1)

SpecJobs == InitCron /\ [][NextJobs]_vars

----------------------------------------------------------------------------
(* The claims *)

\* the note holds the text "SHIPSY_ID:"
ContainsToken(note) == note # Null /\ includes(note, TokenKey)

\* financial_status "refunded" or fulfillment_status "cancelled"
RefundedOrCancelled(order) ==
  order.financial_status = "refunded" \/ order.fulfillment_status = "cancelled"

\* the steps of a syncOrder call
SyncPcs == {"guard", "note", "tagget", "tagput", "returned"}

InSyncOrder(t) == task[t].pc \in SyncPcs

SyncEntries(log) == SelectSeq(log, LAMBDA e : e.type = "sync")

CountOf(outcomes, what) ==
  Cardinality({ k \in 1..Len(outcomes) : outcomes[k] = what })

\* C1: a syncOrder call on an order whose note already contains a SHIPSY_ID:
\* token leaves the carrier and the order source as they are (no
\* createConsignment, no updateOrderNote, no addOrderTag) and returns
\* {success: false, reason: "already_synced"}.
C1_AlreadySyncedShortCircuit ==
  [][ \A t \in Tasks :
        ( /\ task[t].pc = "guard"
          /\ ContainsToken(Current(t).note)
          /\ task'[t] # task[t] )
        => /\ carrier' = carrier
           /\ shop' = shop
           /\ task'[t].pc = "returned"
           /\ task'[t].result = AlreadySyncedResult ]_vars

C1_Witness ==
  \E t \in Tasks :
    /\ task[t].pc = "returned"
    /\ ContainsToken(Current(t).note)
    /\ task[t].result = AlreadySyncedResult

\* C2: over non-overlapping syncOrder invocations, each given the order's
\* current note, at most one consignment is ever created at the carrier for
\* an order, also when the carrier call, the note write or the tag write of
\* an invocation fails.
C2_AtMostOneConsignmentPerOrder ==
  \A o \in Orders : Cardinality(ConsignmentsOf(o)) <= 1

\* C3: when two syncOrder invocations for the same unsynced order overlap,
\* at most one of them makes the carrier create a consignment.
C3_OverlapCreatesOnce ==
  \A t1, t2 \in Tasks :
    ( /\ t1 # t2
      /\ InSyncOrder(t1)
      /\ InSyncOrder(t2)
      /\ Current(t1).id = Current(t2).id
      /\ ~ContainsToken(Current(t1).note)
      /\ ~ContainsToken(Current(t2).note) )
    => ~(task[t1].cid # Null /\ task[t2].cid # Null)

\* C4: a syncOrder call on an order whose note holds no token, in which
\* createConsignment and both order-source writes succeed, returns
\* {success: true, consignmentId: id} for the id the carrier issued, and then
\* the order's note contains "SHIPSY_ID: <id>" and its tags include
\* shipsy-synced.
C4_FreshSync ==
  \A t \in Tasks :
    ( /\ task[t].pc = "returned"
      /\ ~ContainsToken(Current(t).note)
      /\ ~task[t].result.threw )
    => LET r == task[t].result
           o == Current(t).id
       IN /\ r.success
          /\ r.consignmentId = task[t].cid
          /\ [order |-> o, id |-> r.consignmentId] \in carrier
          /\ includes(shop[o].note, TokenKey \o << " " >> \o r.consignmentId)
          /\ arrayIncludes(split(shop[o].tags, TagSeparator), ShipsySyncedTag)

C4_Witness ==
  \E t \in Tasks :
    /\ task[t].pc = "returned"
    /\ ~ContainsToken(Current(t).note)
    /\ ~task[t].result.threw
    /\ task[t].result.success
    /\ shop[Current(t).id].tags # ShipsySyncedTag

\* C5: extractConsignmentId gives back a digits-only id from the note
\* syncOrder writes for it, and from a token with unrelated text around it
\* (the first match wins); it gives null for a null, empty or token-free note.
C5_NoteTokenRoundTrip ==
  ( /\ probe.mode # "off"
    /\ probe.pc \in {"extracted", "classified"} )
  => /\ probe.mode \in {"sync", "embedded"} => probe.out = probe.id
     /\ ( /\ probe.mode = "raw"
          /\ (Falsy(probe.note) \/ ~includes(probe.note, TokenKey)) )
        => probe.out = Null

C5_Witness ==
  /\ probe.mode = "embedded"
  /\ probe.pc = "extracted"
  /\ probe.pre # << >>
  /\ includes(probe.post, TokenKey)
  /\ probe.out = << "4", "2" >>

\* C6: every place that asks whether an order is synced (the guard of
\* syncOrder, the synced counter of getSyncStats) answers yes exactly when
\* extractConsignmentId of the note is not null.
C6_SingleSourceOfTruth ==
  ( /\ probe.mode # "off"
    /\ probe.pc = "classified" )
  => /\ probe.guard <=> (probe.out # Null)
     /\ probe.stats <=> (probe.out # Null)

\* C7: after a successful syncOrder on an order whose note held text without
\* a token, the note still starts with that text, and the sync metadata
\* follows it on a new line.
C7_NoteAppendOnly ==
  \A t \in Tasks :
    ( /\ task[t].pc = "returned"
      /\ ~task[t].result.threw
      /\ task[t].result.success
      /\ ~Falsy(Current(t).note) )
    => StartsWithAt(shop[Current(t).id].note,
                    Current(t).note \o << "\n" >> \o TokenKey, 1)

\* C8: every syncOrder attempt, returned or thrown, adds one entry of type
\* sync to the Sync Log.
C8_EveryAttemptLogged ==
  [][ \A t \in Tasks :
        (task[t].pc # "returned" /\ task'[t].pc = "returned")
        => Len(SyncEntries(syncLog')) = Len(SyncEntries(syncLog)) + 1 ]_vars

\* C9: a syncPendingOrders run over a page of N unsynced orders, none of them
\* refunded or cancelled, attempts every order, also after a failure, and
\* returns synced = N - |F|, failed = |F|, total = N, where F are the orders
\* whose syncOrder threw; every order counted as synced has a consignment.
C9_BatchIsolation ==
  \A t \in Tasks :
    ( /\ task[t].kind = "batch"
      /\ task[t].pc = "done"
      /\ task[t].response.status = 200
      /\ \A k \in 1..Len(task[t].page) :
           /\ ~ContainsToken(task[t].page[k].note)
           /\ ~RefundedOrCancelled(task[t].page[k]) )
    => LET n == Len(task[t].page)
           out == task[t].outcomes
           f == CountOf(out, "threw")
       IN /\ Len(out) = n
          /\ \A k \in 1..n :
               /\ out[k] \in {"success", "threw"}
               /\ out[k] = "success" => ConsignmentsOf(task[t].page[k].id) # {}
          /\ task[t].response.synced + f = n
          /\ task[t].response.failed = f
          /\ task[t].response.total = n

C9_Witness ==
  \E t \in Tasks :
    /\ task[t].kind = "batch"
    /\ task[t].pc = "done"
    /\ task[t].response.status = 200
    /\ Len(task[t].page) >= 2
    /\ task[t].outcomes[1] = "threw"
    /\ task[t].response.failed = 1
    /\ task[t].response.synced = Len(task[t].page) - 1

\* C10: syncPendingOrders never runs syncOrder (so no createConsignment and
\* no order-source write) for an order that is refunded or cancelled,
\* whatever its note; the order is left as it was and is counted neither as
\* synced nor as failed.
C10_RefundedCancelledExcluded ==
  \A t \in Tasks :
    task[t].kind = "batch"
    => /\ InSyncOrder(t) => ~RefundedOrCancelled(Current(t))
       /\ (task[t].pc = "done" /\ task[t].response.status = 200)
          => /\ \A k \in 1..Len(task[t].page) :
                  RefundedOrCancelled(task[t].page[k])
                  => /\ task[t].outcomes[k] = "skipped"
                     /\ Snapshot(task[t].page[k].id) = task[t].page[k]
             /\ task[t].response.synced = CountOf(task[t].outcomes, "success")
             /\ task[t].response.failed = CountOf(task[t].outcomes, "threw")

C10_Witness ==
  \E t \in Tasks :
    /\ task[t].kind = "batch"
    /\ task[t].pc = "done"
    /\ task[t].response.status = 200
    /\ task[t].response.synced = 1
    /\ \E k \in 1..Len(task[t].page) :
         /\ task[t].page[k].financial_status = "refunded"
         /\ ContainsToken(task[t].page[k].note)
         /\ task[t].outcomes[k] = "skipped"

\* C11: the already-synced short-circuit is not a failure: syncPendingOrders
\* counts an order whose note already holds a token neither in synced nor in
\* failed, and handleOrderCreated / handleOrderUpdated answer {success: true}
\* for such an order without throwing.
C11_AlreadySyncedNotAFailure ==
  \A t \in Tasks :
    task[t].pc = "done"
    => /\ (task[t].kind = "batch" /\ task[t].response.status = 200)
          => LET page == task[t].page
                 fresh == { k \in 1..Len(page) : ~ContainsToken(page[k].note) }
             IN /\ \A k \in 1..Len(page) :
                     ContainsToken(page[k].note)
                     => task[t].outcomes[k] \in {"already_synced", "skipped"}
                /\ task[t].response.synced + task[t].response.failed
                     <= Cardinality(fresh)
       /\ ( /\ task[t].kind \in {"created", "updated"}
            /\ ContainsToken(task[t].page[1].note) )
          => task[t].response = [status |-> 200, success |-> TRUE]

C11_Witness ==
  \E t \in Tasks :
    /\ task[t].kind = "batch"
    /\ task[t].pc = "done"
    /\ task[t].response.status = 200
    /\ \E k \in 1..Len(task[t].page) :
         /\ ContainsToken(task[t].page[k].note)
         /\ task[t].outcomes[k] = "already_synced"
    /\ task[t].response.synced + task[t].response.failed = Len(task[t].page) - 1

\* C12: a 2xx answer of the carrier without a consignment id is a hard
\* failure for the order: createConsignment and syncOrder throw, the
\* order's note and tags stay as they were, and a batch counts the order in
\* failed and not in synced.
C12_MissingIdIsHardFailure ==
  [][ \A t \in Tasks :
        ( /\ task[t].pc = "returned"
          /\ task[t].reply = "no_id"
          /\ task'[t] # task[t] )
        => /\ task[t].result.threw
           /\ task[t].result.reason = "No consignment ID in response"
           /\ shop[Current(t).id].note = Current(t).note
           /\ shop[Current(t).id].tags = Current(t).tags
           /\ ~ContainsToken(shop[Current(t).id].note)
           /\ shop' = shop
           /\ task[t].kind = "batch"
              => /\ task'[t].failed = task[t].failed + 1
                 /\ task'[t].synced = task[t].synced
           /\ task[t].kind # "batch"
              => task'[t].response = [status |-> 500, success |-> FALSE] ]_vars

C12_Witness ==
  \E t \in Tasks :
    /\ task[t].kind = "batch"
    /\ task[t].pc = "returned"
    /\ task[t].reply = "no_id"
    /\ task[t].i = Len(task[t].page)
    /\ task[t].synced = 1

\* C13: the two order-source writes of syncOrder are one commit: when a
\* syncOrder call on an order that had neither token nor tag has returned
\* or thrown, the order's note contains a SHIPSY_ID: token exactly if its
\* tags contain shipsy-synced.
C13_NoteAndTagOneCommit ==
  \A t \in Tasks :
    ( /\ task[t].pc = "returned"
      /\ ~ContainsToken(Current(t).note)
      /\ ~arrayIncludes(split(Current(t).tags, TagSeparator), ShipsySyncedTag) )
    => ( ContainsToken(shop[Current(t).id].note)
         <=> arrayIncludes(split(shop[Current(t).id].tags, TagSeparator),
                           ShipsySyncedTag) )

\* the note holds a token of the note grammar: SHIPSY_ID: and digits
HoldsIdToken(note) ==
  note # Null /\ \E i \in 1..Len(note) : MatchAt(note, i) # << >>

\* a reconciliation run that has returned {updated, failed}
ReconReturned(t) ==
  task[t].kind = "recon" /\ task[t].pc = "done" /\ task[t].response.status = 200

ReconThrows(outcomes) ==
  Cardinality({ k \in 1..Len(outcomes) : outcomes[k].res = "threw" })

\* C14: every value of SUPPORTED_SHIPMENT_STATUSES has an entry in
\* settings.shipmentStatuses, and a reconciliation run that is given one of
\* them goes on to updateOrderStatus with the entry's status: it never takes
\* the "Unknown shipment status" branch.
C14_SupportedStatusesMapped ==
  /\ SUPPORTED_SHIPMENT_STATUSES \subseteq DOMAIN shipmentStatuses
  /\ \A t \in Tasks :
       task[t].kind = "recon"
       => \A k \in 1..Len(task[t].outcomes) :
            LET out == task[t].outcomes[k]
            IN out.status \in SUPPORTED_SHIPMENT_STATUSES
               => /\ out.res \in {"updated", "threw"}
                  /\ out.statusCall = shipmentStatuses[out.status].shopifyStatus

C14_Witness ==
  \E t \in Tasks :
    /\ ReconReturned(t)
    /\ Len(task[t].outcomes) >= 2
    /\ task[t].outcomes[1].status = "outfordelivery"
    /\ task[t].outcomes[1].res = "updated"
    /\ task[t].outcomes[2].status = "attempted"
    /\ task[t].outcomes[2].res = "updated"

\* C15: every status of the consignment status enumeration, the statuses
\* the Shipment model knows (in_transit and pending among them), is a key of
\* settings.shipmentStatuses: a reconciliation run that is given one of them
\* never takes the "Unknown shipment status" branch.
C15_EveryCarrierStatusMapped ==
  \A t \in Tasks :
    task[t].kind = "recon"
    => \A k \in 1..Len(task[t].outcomes) :
         LET out == task[t].outcomes[k]
         IN out.status \in statusMap
            => /\ out.res \in {"updated", "threw"}
               /\ out.statusCall # "none"

\* C16 as stated: for every order of the page whose note holds a token and
\* whose carrier status has a mapping entry, updateOrderStatus is called with
\* the entry's status and a customer message is sent exactly if the entry's
\* notify flag is true; an order without a token causes no query, no write.
C16_MessageIffNotify ==
  \A t \in Tasks :
    ReconReturned(t)
    => \A k \in 1..Len(task[t].page) :
         LET o == task[t].page[k]
             out == task[t].outcomes[k]
         IN /\ ~HoldsIdToken(o.note)
               => out = SkippedOutcome /\ Snapshot(o.id) = o
            /\ (HoldsIdToken(o.note) /\ out.status \in DOMAIN shipmentStatuses)
               => /\ out.statusCall = shipmentStatuses[out.status].shopifyStatus
                  /\ out.messageCall <=> shipmentStatuses[out.status].notify

\* C16, amended: for every order of the page whose note holds a token and
\* whose carrier status has a mapping entry, updateOrderStatus is called with
\* the entry's status; when that write succeeds the order has the status and
\* a customer message is sent exactly if the entry's notify flag is true;
\* when it throws no message is sent. An order without a token causes no
\* query and no write.
C16_ReconciliationAppliesMapping ==
  \A t \in Tasks :
    ReconReturned(t)
    => \A k \in 1..Len(task[t].page) :
         LET o == task[t].page[k]
             out == task[t].outcomes[k]
         IN /\ ~HoldsIdToken(o.note)
               => out = SkippedOutcome /\ Snapshot(o.id) = o
            /\ (HoldsIdToken(o.note) /\ out.status \in DOMAIN shipmentStatuses)
               => LET entry == shipmentStatuses[out.status]
                  IN /\ out.status = shipment[o.id]
                     /\ out.statusCall = entry.shopifyStatus
                     /\ out.written
                        => /\ shop[o.id].financial_status = entry.shopifyStatus
                           /\ out.messageCall <=> entry.notify
                     /\ ~out.written
                        => /\ ~out.messageCall
                           /\ out.res = "threw"
                           /\ Snapshot(o.id) = o

C16_Witness ==
  \E t \in Tasks :
    /\ ReconReturned(t)
    /\ Len(task[t].page) >= 2
    /\ task[t].outcomes[1].status = "delivered"
    /\ task[t].outcomes[1].statusCall = "completed"
    /\ task[t].outcomes[1].written
    /\ task[t].outcomes[1].messageCall
    /\ shop[task[t].page[1].id].financial_status = "completed"
    /\ task[t].outcomes[2].status = "reached_at_hub"
    /\ task[t].outcomes[2].written
    /\ ~task[t].outcomes[2].messageCall

\* C17: a carrier status without a mapping entry is a warning, never
\* fatal: the run makes no updateOrderStatus and no sendOrderMessage call
\* for the order, leaves it as it was, does not count it as failed, does not
\* throw, and goes on to the next order.
C17_UnmappedStatusIsWarning ==
  \A t \in Tasks :
    ReconReturned(t)
    => /\ Len(task[t].outcomes) = Len(task[t].page)
       /\ \A k \in 1..Len(task[t].page) :
            LET o == task[t].page[k]
                out == task[t].outcomes[k]
            IN ( /\ HoldsIdToken(o.note)
                 /\ out.status = shipment[o.id]
                 /\ out.status \notin DOMAIN shipmentStatuses \cup {"none"} )
               => /\ out.statusCall = "none"
                  /\ ~out.messageCall
                  /\ out.res # "threw"
                  /\ Snapshot(o.id) = o
       /\ task[t].response.failed = ReconThrows(task[t].outcomes)

C17_Witness ==
  \E t \in Tasks :
    /\ ReconReturned(t)
    /\ Len(task[t].page) >= 2
    /\ task[t].outcomes[1].status = "in_transit"
    /\ task[t].outcomes[2].status = "delivered"
    /\ task[t].outcomes[2].res = "updated"
    /\ task[t].response.failed = 0

\* C18: reconciliation isolates per-order failures: when the status query,
\* updateOrderStatus or sendOrderMessage throws for some orders of the page,
\* the run still handles every later order, returns {updated, failed}, and
\* failed is the number of orders for which a call threw.
C18_ReconFailureIsolation ==
  \A t \in Tasks :
    task[t].kind = "recon"
    => /\ task[t].failed = ReconThrows(task[t].outcomes)
       /\ task[t].pc = "done"
          => \/ task[t].response.status = 500 /\ task[t].page = << >>
             \/ /\ task[t].response.status = 200
                /\ Len(task[t].outcomes) = Len(task[t].page)
                /\ task[t].response.failed = ReconThrows(task[t].outcomes)
                /\ \A k \in 1..Len(task[t].page) :
                     HoldsIdToken(task[t].page[k].note)
                     => task[t].outcomes[k].res # "skipped"

C18_Witness ==
  \E t \in Tasks :
    /\ ReconReturned(t)
    /\ Len(task[t].page) >= 2
    /\ task[t].outcomes[1].res = "threw"
    /\ task[t].outcomes[2].res = "updated"
    /\ task[t].response.failed = 1
    /\ task[t].response.updated = 1

SyncKinds == {"created", "updated", "manual", "batch"}

\* invocation t is a syncOrder call on order o whose updateOrderNote has
\* stored the token
WroteToken(t, o) ==
  /\ task[t].kind \in SyncKinds
  /\ task[t].pc \in {"tagget", "tagput", "returned"}
  /\ Current(t).id = o
  /\ task[t].reply = "id"
  /\ task[t].pc = "returned"
     => task[t].result \in { Thrown("getOrder failed"), Thrown("addOrderTag failed"),
                             [success |-> TRUE, threw |-> FALSE, orderId |-> o,
                              consignmentId |-> task[t].cid] }

\* reconciliation run t has stored a status for order o, from a page it
\* fetched before the sync of o had stored its tag
WroteStatusFromStalePage(t, o) ==
  /\ task[t].kind = "recon"
  /\ \E k \in 1..Len(task[t].outcomes) :
       /\ task[t].page[k].id = o
       /\ task[t].outcomes[k].written
       /\ ~arrayIncludes(split(task[t].page[k].tags, TagSeparator), ShipsySyncedTag)

\* C19: the note of an order changes only in the updateOrderNote step of a
\* syncOrder call whose createConsignment returned an id, and then it holds
\* the token of that id; reconciliation, the status write, the customer
\* message, the tag write and the label, status and cancel endpoints leave
\* every note as it is.
C19_SyncedOnlyBySyncOrder ==
  [][ \A o \in Orders :
        shop'[o].note # shop[o].note
        => \E t \in Tasks :
             /\ task[t].kind \in SyncKinds
             /\ task[t].pc = "note"
             /\ task'[t].pc = "tagget"
             /\ Current(t).id = o
             /\ task[t].reply = "id"
             /\ [order |-> o, id |-> task[t].cid] \in carrier
             /\ includes(shop'[o].note, TokenKey \o << " " >> \o task[t].cid) ]_vars

C19_Witness ==
  \E o \in Orders :
    /\ ContainsToken(shop[o].note)
    /\ shop[o].financial_status = "completed"
    /\ arrayIncludes(split(shop[o].tags, TagSeparator), ShipsySyncedTag)
    /\ task[2].kind = "cancel"
    /\ task[2].page # << >>
    /\ task[2].page[1].id = o
    /\ task[2].response.status = 200

C25_UpdatedCountsWrites ==
  \A t \in Tasks :
    ReconReturned(t)
    => task[t].response.updated
         = Cardinality({ k \in 1..Len(task[t].outcomes) :
                           task[t].outcomes[k].written })

\* C29: syncOrder never resolves without a result: a call that is over
\* has thrown, or returned {success: false, reason: "already_synced"}, or
\* returned {success: true, orderId, consignmentId} with a non-empty
\* consignmentId; so a batch counts an order as failed only for a throw of
\* syncOrder.
C29_SyncOrderAlwaysHasResult ==
  \A t \in Tasks :
    /\ task[t].pc = "returned"
       => LET r == task[t].result
          IN \/ r.threw /\ r # UndefinedResult
             \/ r = AlreadySyncedResult
             \/ /\ r.success
                /\ ~r.threw
                /\ r.orderId = Current(t).id
                /\ r.consignmentId # Null
                /\ Len(r.consignmentId) > 0
                /\ r.consignmentId \in { c.id : c \in ConsignmentsOf(Current(t).id) }
    /\ task[t].kind = "batch"
       => /\ task[t].failed = CountOf(task[t].outcomes, "threw")
          /\ CountOf(task[t].outcomes, "undefined") = 0

C29_Witness ==
  \E t \in Tasks :
    /\ task[t].kind = "batch"
    /\ task[t].pc = "returned"
    /\ task[t].i = 2
    /\ task[t].outcomes = << "threw" >>
    /\ task[t].result.success
    /\ task[t].result.consignmentId = CarrierIdPool[1]

\* C22 as stated: the batch endpoints answer 200 with {synced, failed,
\* total} in every case.
C22_BatchAlways200 ==
  \A t \in Tasks :
    (task[t].kind = "batch" /\ task[t].pc = "done")
    => /\ task[t].response.status = 200
       /\ task[t].response.synced + task[t].response.failed
            <= task[t].response.total

\* C22, amended: when getAllOrders has delivered the page, the batch
\* endpoints answer 200 with {synced, failed, total}, total the size of the
\* page, also when some or all orders have failed; when getAllOrders throws
\* they answer 500 with {success: false}.
C22_Batch200OncePageFetched ==
  \A t \in Tasks :
    (task[t].kind = "batch" /\ task[t].pc = "done")
    => IF task[t].page # << >>
       THEN /\ task[t].response
                 = [status |-> 200,
                    synced |-> CountOf(task[t].outcomes, "success"),
                    failed |-> CountOf(task[t].outcomes, "threw"),
                    total |-> Len(task[t].page)]
            /\ Len(task[t].outcomes) = Len(task[t].page)
       ELSE /\ task[t].response = [status |-> 500, success |-> FALSE]
            /\ task[t].outcomes = << >>

C22_Witness ==
  \E t \in Tasks :
    /\ task[t].kind = "batch"
    /\ task[t].pc = "done"
    /\ task[t].response.status = 200
    /\ task[t].response.total = Len(task[t].page)
    /\ task[t].response.failed = task[t].response.total
    /\ task[t].response.failed >= 2

\* C26: synced is stable: once the note of an order contains a SHIPSY_ID:
\* token, no operation run one at a time (syncOrder from any trigger,
\* syncPendingOrders, updateConsignmentStatuses with its status write and
\* message, addOrderTag, the label, status and cancel endpoints) changes
\* the note: the token stays and names the same id.
C26_SyncedIsStable ==
  [][ \A o \in Orders :
        ContainsToken(shop[o].note)
        => /\ shop'[o].note = shop[o].note
           /\ extractConsignmentId(shop'[o].note) = extractConsignmentId(shop[o].note)
           /\ ContainsToken(shop'[o].note) ]_vars

C26_Witness ==
  \E o \in Orders :
    /\ ContainsToken(shop[o].note)
    /\ shop[o].financial_status = "completed"
    /\ task[1].kind = "batch"
    /\ task[1].pc = "done"
    /\ task[1].response.status = 200
    /\ task[1].outcomes[o] = "already_synced"

\* C21: orders are validated before sync: on every path to syncOrder the
\* carrier is asked to create a consignment only for an order that passes
\* Order.validate (recipient name, address line 1, city, postal code, phone,
\* at least one line item).
C21_OnlyValidOrdersReachCarrier ==
  /\ \A c \in carrier : validate(shop[c.order]).isValid
  /\ \A t \in Tasks :
       (InSyncOrder(t) /\ task[t].reply # "none")
       => validate(Current(t)).isValid

\* the tags of a stored tag list
TagList(tags) == IF Falsy(tags) THEN << >> ELSE split(tags, TagSeparator)

Occurrences(list, tag) == Cardinality({ k \in 1..Len(list) : list[k] = tag })

\* C30: addOrderTag keeps the tags an order has and adds its tag at most
\* once: no call removes a tag, after a completed call the added tag occurs
\* exactly once, and when two calls with different tags on the same order
\* have both completed, overlapping or not, both tags are present.
C30_AddOrderTagKeepsTags ==
  /\ \A o \in Orders, tag \in AddedTags :
       Occurrences(TagList(shop[o].tags), tag) <= 1
  /\ \A t1, t2 \in Tasks :
       ( /\ t1 # t2
         /\ task[t1].kind = "tag" /\ task[t1].pc = "done" /\ task[t1].ok
         /\ task[t2].kind = "tag" /\ task[t2].pc = "done" /\ task[t2].ok
         /\ task[t1].order = task[t2].order
         /\ task[t1].tag # task[t2].tag )
       => /\ arrayIncludes(TagList(shop[task[t1].order].tags), task[t1].tag)
          /\ arrayIncludes(TagList(shop[task[t1].order].tags), task[t2].tag)

\* the calls of a retry that failed
FailedCalls(calls) == { k \in 1..Len(calls) : ~calls[k].ok }

Smaller(a, b) == IF a < b THEN a ELSE b

\* C23: retry calls fn at most maxRetries times; a successful call is the
\* last call and its value is returned; when all maxRetries calls failed,
\* retry throws the error of the last call; the k-th wait (from 0) is
\* delayMs * backoff^k, one wait follows each failed attempt but the final one.
C23_RetryBackoff ==
  \A t \in Tasks : task[t].kind = "retry" =>
    LET r == task[t]
        n == Len(r.calls)
        failed == Cardinality(FailedCalls(r.calls))
    IN  /\ n <= r.maxRetries
        /\ \A k \in 1..n : r.calls[k].ok =>
             /\ k = n
             /\ r.pc = "done"
             /\ r.result = [threw |-> FALSE, value |-> r.calls[k].value]
        /\ (r.pc = "done" /\ failed = n /\ r.maxRetries >= 1) =>
             /\ n = r.maxRetries
             /\ r.result = [threw |-> TRUE, value |-> r.calls[n].value]
        /\ Len(r.waits) = Smaller(failed, r.maxRetries - 1)
             \/ (r.maxRetries = 0 /\ r.waits = << >>)
        /\ \A k \in 1..Len(r.waits) :
             r.waits[k] = r.delayMs * Pow(r.backoff, k - 1)

\* three failed calls with two waits of 1 and 2
C23_Witness ==
  /\ task[1].kind = "retry"
  /\ task[1].pc = "done"
  /\ task[1].result = [threw |-> TRUE, value |-> "e2"]
  /\ Len(task[1].calls) = 3
  /\ task[1].waits = << 1, 2 >>

\* a is an initial part of b
IsPrefix(a, b) == Len(a) <= Len(b) /\ SubSeq(b, 1, Len(a)) = a

C28_AtMostOneJob ==
  /\ cron.syncJobs <= 1
  /\ cron.statusJobs <= 1
  /\ (cron.last = "startSyncCron" /\ cron.was = "job") => cron.syncJobs = 1
  /\ (cron.last = "startStatusUpdateCron" /\ cron.was = "job")
       => cron.statusJobs = 1
  /\ ~settings => (cron.syncJobs = 0 /\ cron.statusJobs = 0)
  /\ cron.last = "stopSyncCron" => cron.syncJobs = 0
  /\ cron.last = "stopStatusUpdateCron" => cron.statusJobs = 0

\* startSyncCron was called while the sync job was running
C28_Witness ==
  /\ cron.last = "startSyncCron"
  /\ cron.was = "job"
  /\ cron.syncJobs = 1
  /\ cron.statusJobs = 1

\* an invocation begun by an automatic trigger: a webhook or a cron tick
AutomaticTrigger(t) ==
  task[t].kind \in {"created", "updated"} \/ task[t].trigger = "cron"

\* C27: no invocation that an automatic trigger began while
\* ENABLE_AUTO_SYNC was "false" creates a consignment.
C27_NoAutomaticSyncWhenDisabled ==
  [][ \A t \in Tasks :
        ~ ( /\ task[t].pc = "guard"
            /\ AutomaticTrigger(t)
            /\ task[t].autoSync = "false"
            /\ task'[t] # task[t]
            /\ carrier' # carrier ) ]_vars

====
